---- MODULE Spec2Model ----
(***************************************************************************)
(* A model of rust-httpie (src/src/main.rs): a command-line HTTP client.   *)
(* One invocation parses its arguments (Opts::parse with the value parsers *)
(* parse_url and parse_kv_pair), issues one GET or POST through a reqwest  *)
(* client and prints the response (print_resp).                            *)
(*                                                                         *)
(* Text is modelled as a sequence of lexemes: single characters for the    *)
(* command-line arguments, and tokens ("application", "/", "json", ...)    *)
(* for header values and bodies.                                           *)
(***************************************************************************)
EXTENDS Integers, Sequences, FiniteSets, TLC

VARIABLES
    kvIn, kvOut,        \* parse_kv_pair: its argument and its result
    urlIn, urlOut,      \* parse_url: its argument and its result
    pc,                 \* position of main
    argv,               \* the command line of the invocation
    net,                \* what the network will answer to a request
    opts,               \* the parsed Opts
    requests,           \* the requests handed to the client, in order
    resp,               \* the Response received
    mime,               \* the result of get_content_type
    body,               \* the result of resp.text()
    out,                \* what was written to standard output, in order
    errs,               \* what was written to standard error, in order
    exit                \* the exit status of the process, -1 while running

vars == <<kvIn, kvOut, urlIn, urlOut, pc, argv, net, opts, requests, resp,
          mime, body, out, errs, exit>>

kvVars == <<kvIn, kvOut>>
urlVars == <<urlIn, urlOut>>
mainVars == <<pc, argv, net, opts, requests, resp, mime, body, out, errs, exit>>

----------------------------------------------------------------------------
(* Bounds *)

MaxKvLen == 5       \* longest key=value argument of SpecKv
MaxUrlLen == 6      \* longest url argument of SpecUrl
MaxPairs == 2       \* most key=value arguments of one post invocation
MaxHeaders == 3     \* most headers of one response

----------------------------------------------------------------------------
(* Text helpers *)

\* All sequences over alphabet of length at most n.
StrsUpTo(alphabet, n) == UNION {[1..m -> alphabet] : m \in 0..n}

\* Position of the first occurrence of c in s at or after position from, 0 if none.
RECURSIVE IndexFrom(_, _, _)
IndexFrom(s, c, from) ==
    IF from > Len(s) THEN 0
    ELSE IF s[from] = c THEN from
    ELSE IndexFrom(s, c, from + 1)

Count(s, c) == Cardinality({i \in 1..Len(s) : s[i] = c})

\* str::split: the pieces of s between the occurrences of sep, in order.
RECURSIVE Split(_, _)
Split(s, sep) ==
    LET i == IndexFrom(s, sep, 1) IN
    IF i = 0 THEN <<s>>
    ELSE <<SubSeq(s, 1, i - 1)>> \o Split(SubSeq(s, i + 1, Len(s)), sep)

----------------------------------------------------------------------------
(* KvPair::from_str and parse_kv_pair *)

KvErr == [ok |-> FALSE, k |-> <<>>, v |-> <<>>]
KvNone == [ok |-> FALSE, k |-> <<"?">>, v |-> <<"?">>]

\* Variant that rejects an argument whose value is empty.
KvPair_from_str_RejectEmpty(s) ==
    LET split == Split(s, "=") IN
    IF Len(split) < 2 \/ split[2] = <<>> THEN KvErr
    ELSE [ok |-> TRUE, k |-> split[1], v |-> split[2]]

\* The iterator of s.split("=") is advanced twice: the first piece is the
\* key, the second the value; a missing piece is the error. Further pieces
\* are never asked for.
KvPair_from_str(s) ==
    LET split == Split(s, "=") IN
    IF Len(split) < 1 THEN KvErr
    ELSE IF Len(split) < 2 THEN KvErr
    ELSE [ok |-> TRUE, k |-> split[1], v |-> split[2]]

parse_kv_pair(s) == KvPair_from_str(s)

KvAlphabet == {"a", "b", "1", "="}
KvInputs == StrsUpTo(KvAlphabet, MaxKvLen)

NoNet == [fail |-> TRUE, status |-> <<>>, headers |-> <<>>,
          textFail |-> FALSE, text |-> <<>>]
NoOpts == [subcmd |-> "none", url |-> <<>>, body |-> <<>>]
NoResp == [received |-> FALSE, status |-> <<>>, headers |-> <<>>]
NoMime == [present |-> FALSE, type |-> "", subtype |-> "", params |-> <<>>]
NoBody == [read |-> FALSE, text |-> <<>>]

\* The state of a process before main runs.
InitProcess ==
    /\ opts = NoOpts
    /\ requests = <<>>
    /\ resp = NoResp
    /\ mime = NoMime
    /\ body = NoBody
    /\ out = <<>>
    /\ errs = <<>>
    /\ exit = -1

InitMainIdle ==
    /\ pc = "idle"
    /\ argv = [cmd |-> "none", url |-> <<>>, body |-> <<>>]
    /\ net = NoNet
    /\ InitProcess

InitKv ==
    /\ kvIn \in KvInputs
    /\ kvOut = KvNone
    /\ urlIn = <<>>
    /\ urlOut = [ok |-> FALSE, val |-> <<"?">>]
    /\ InitMainIdle


ParseKvPair ==
    /\ kvOut = KvNone
    /\ kvOut' = parse_kv_pair(kvIn)
    /\ UNCHANGED <<kvIn, urlVars, mainVars>>

NextKv == ParseKvPair

SpecKv == InitKv /\ [][NextKv]_vars

\* C1: for every s with at least one '=', parse_kv_pair(s) succeeds with the
\* key being the text before the first '=' and the value being everything
\* after that first '=' (so "a=1=2" gives key "a" and value "1=2").
C1_SplitsOnFirstEq ==
    (kvOut # KvNone /\ Count(kvIn, "=") >= 1) =>
        LET i == IndexFrom(kvIn, "=", 1) IN
        /\ kvOut.ok
        /\ kvOut.k = SubSeq(kvIn, 1, i - 1)
        /\ kvOut.v = SubSeq(kvIn, i + 1, Len(kvIn))

\* C2: parse_kv_pair(s) is an error exactly when s has no '='; an argument
\* with an empty value such as "b=" is accepted with key "b" and value "".
C2_ErrIffNoEq ==
    kvOut # KvNone =>
        /\ kvOut.ok <=> Count(kvIn, "=") >= 1
        /\ kvIn = <<"b", "=">> => kvOut = [ok |-> TRUE, k |-> <<"b">>, v |-> <<>>]

C2_Witness ==
    /\ kvIn = <<"b", "=">>
    /\ kvOut.ok
    /\ kvOut.v = <<>>

----------------------------------------------------------------------------
(* parse_url *)

UrlErr == [ok |-> FALSE, val |-> <<>>]
UrlNone == [ok |-> FALSE, val |-> <<"?">>]

Lower(c) == CASE c = "S" -> "s" [] c = "W" -> "w" [] OTHER -> c
LowerStr(s) == [i \in 1..Len(s) |-> Lower(s[i])]

IsAlpha(c) == c \in {"w", "s", "W", "S"}
SpecialSchemes == {<<"w", "s">>, <<"w", "s", "s">>}

\* Number of leading '/' of s.
RECURSIVE LeadingSlashes(_)
LeadingSlashes(s) ==
    IF s # <<>> /\ Head(s) = "/" THEN 1 + LeadingSlashes(Tail(s)) ELSE 0

\* s.parse::<Url>(): the parse of an absolute URL without a base, for text
\* with at most one ':' (no port, no userinfo), no query and no fragment.
\* The result is the serialisation of the parsed Url. The scheme is the
\* text before the ':' and must be letters; it is lowercased. A special
\* scheme takes any number of slashes, then a host that must not be empty
\* and is lowercased, then a path that defaults to "/". Any other scheme
\* keeps the rest as written.
Url_parse(s) ==
    LET colon == IndexFrom(s, ":", 1) IN
    IF colon <= 1 THEN UrlErr
    ELSE IF \E i \in 1..(colon - 1) : ~IsAlpha(s[i]) THEN UrlErr
    ELSE
        LET scheme == LowerStr(SubSeq(s, 1, colon - 1))
            rest == SubSeq(s, colon + 1, Len(s))
        IN
        IF scheme \in SpecialSchemes THEN
            LET n == LeadingSlashes(rest)
                auth == SubSeq(rest, n + 1, Len(rest))
                slash == IndexFrom(auth, "/", 1)
                host == IF slash = 0 THEN auth ELSE SubSeq(auth, 1, slash - 1)
                path == IF slash = 0 THEN <<"/">> ELSE SubSeq(auth, slash, Len(auth))
            IN
            IF host = <<>> THEN UrlErr
            ELSE [ok |-> TRUE,
                  val |-> scheme \o <<":", "/", "/">> \o LowerStr(host) \o path]
        ELSE [ok |-> TRUE, val |-> scheme \o <<":">> \o rest]

\* Variant that returns the text of the parsed Url instead of the argument.
parse_url_Normalised(s) == Url_parse(s)

\* let _url: Url = s.parse()?; Ok(s.into())
parse_url(s) ==
    LET _url == Url_parse(s) IN
    IF ~_url.ok THEN UrlErr
    ELSE [ok |-> TRUE, val |-> s]

UrlAlphabet == {"w", "s", "S", ":", "/"}
UrlInputs == {s \in StrsUpTo(UrlAlphabet, MaxUrlLen) : Count(s, ":") <= 1}

InitUrl ==
    /\ urlIn \in UrlInputs
    /\ urlOut = UrlNone
    /\ kvIn = <<>>
    /\ kvOut = KvNone
    /\ InitMainIdle

ParseUrl ==
    /\ urlOut = UrlNone
    /\ urlOut' = parse_url(urlIn)
    /\ UNCHANGED <<urlIn, kvVars, mainVars>>

NextUrl == ParseUrl

SpecUrl == InitUrl /\ [][NextUrl]_vars

\* C3: parse_url(s) fails for every s that does not parse as a URL, and for
\* every s that does parse it succeeds and returns s itself, not the
\* normalised text of the parsed URL.
C3_UrlUnchanged ==
    urlOut # UrlNone =>
        /\ urlOut.ok <=> Url_parse(urlIn).ok
        /\ urlOut.ok => urlOut.val = urlIn
        /\ ~(\E i \in 1..Len(urlIn) : urlIn[i] = ":") => ~urlOut.ok

\* An accepted URL whose parsed form differs from the text given.
C3_Witness ==
    /\ urlOut.ok
    /\ urlOut.val = urlIn
    /\ Url_parse(urlIn).val # urlIn

----------------------------------------------------------------------------
(* The command line and the network of one invocation *)

ValidUrlArg == <<"w", "s", ":", "/", "/", "s">>
UrlArgs == {<<"w", "s">>, ValidUrlArg}
KvArgs == {<<"a", "=", "1">>, <<"a", "=", "2">>, <<"b", "=", "2">>, <<"a">>,
           <<"a", "=", "1", "=", "2">>}

Argv(cmd, url, kvs) == [cmd |-> cmd, url |-> url, body |-> kvs]

AllArgvs ==
    {Argv(c, <<>>, <<>>) : c \in {"--help", "--version", "put"}}
    \cup {Argv("get", u, <<>>) : u \in UrlArgs}
    \cup {Argv("post", u, b) : u \in UrlArgs, b \in StrsUpTo(KvArgs, MaxPairs)}

FewArgvs == {Argv("get", ValidUrlArg, <<>>),
             Argv("post", ValidUrlArg, <<<<"a", "=", "1">>>>)}

Header(n, v) == [name |-> n, value |-> v]

AppJson == <<"application", "/", "json">>
AppJsonCharset == <<"application", "/", "json", ";", " ", "charset", "=", "utf-8">>
TextPlain == <<"text", "/", "plain">>

\* 0xE9 stands for one byte outside visible ASCII.
HeaderChoices ==
    {Header("content-type", v) :
        v \in {AppJson, AppJsonCharset, TextPlain, <<"json">>, <<"0xE9">>}}
    \cup {Header("set-cookie", v) : v \in {<<"abc">>, <<"\"", "abc", "\"">>}}

JsonBody == <<"{", "\"a\"", ":", "1", "}">>
Bodies == {JsonBody, <<"hello">>, <<"{", "\"a\"", ":">>, <<>>}

Ok200 == <<"200", " ", "OK">>
NotFound404 == <<"404", " ", "Not Found">>

Net(status, headers, textFail, text) ==
    [fail |-> FALSE, status |-> status, headers |-> headers,
     textFail |-> textFail, text |-> text]

AllNets ==
    {Net(Ok200, h, FALSE, b) : h \in StrsUpTo(HeaderChoices, MaxHeaders), b \in Bodies}
    \cup {Net(Ok200, h, TRUE, <<>>) : h \in StrsUpTo(HeaderChoices, MaxHeaders)}

FewNets ==
    {NoNet,
     Net(Ok200, <<Header("content-type", AppJson)>>, FALSE, JsonBody),
     Net(NotFound404, <<>>, FALSE, <<"hello">>),
     Net(Ok200, <<Header("content-type", TextPlain)>>, TRUE, <<>>)}

----------------------------------------------------------------------------
(* Opts::parse *)

RECURSIVE ParseAll(_)
\* The key=value arguments parsed in order; the first error is the result.
ParseAll(kvs) ==
    IF kvs = <<>> THEN [ok |-> TRUE, pairs |-> <<>>]
    ELSE
        LET p == parse_kv_pair(Head(kvs)) IN
        IF ~p.ok THEN [ok |-> FALSE, pairs |-> <<>>]
        ELSE
            LET rest == ParseAll(Tail(kvs)) IN
            IF ~rest.ok THEN rest
            ELSE [ok |-> TRUE, pairs |-> <<[k |-> p.k, v |-> p.v]>> \o rest.pairs]

\* Opts::try_parse: the subcommand is matched, then its url is validated by
\* parse_url and each body argument by parse_kv_pair. --help and --version
\* are answered by clap itself.
Opts_try_parse(a) ==
    CASE a.cmd \in {"--help", "--version"} ->
            [kind |-> "display", opts |-> NoOpts]
      [] a.cmd \in {"get", "post"} ->
            LET u == parse_url(a.url)
                b == ParseAll(a.body)
            IN
            IF u.ok /\ b.ok
            THEN [kind |-> "ok",
                  opts |-> [subcmd |-> a.cmd, url |-> u.val, body |-> b.pairs]]
            ELSE [kind |-> "error", opts |-> NoOpts]
      [] OTHER -> [kind |-> "error", opts |-> NoOpts]

Line(part, text) == [part |-> part, text |-> text]

\* Exit status of a process whose main returned Err.
Termination_report_ErrAsSuccess(ok) == 0

\* Exit status of a process whose main returned: 0 for Ok(()), 1 for Err.
Termination_report(ok) == IF ok THEN 0 ELSE 1

\* let opts: Opts = Opts::parse();  an error is printed and ends the process
\* with a non-zero status; help and version text end it with status 0.
OptsParse ==
    /\ pc = "start"
    /\ LET r == Opts_try_parse(argv) IN
        CASE r.kind = "ok" ->
                /\ opts' = r.opts
                /\ pc' = "parsed"
                /\ UNCHANGED <<out, errs, exit>>
          [] r.kind = "display" ->
                /\ out' = Append(out, Line("help", <<argv.cmd>>))
                /\ exit' = 0
                /\ pc' = "exited"
                /\ UNCHANGED <<opts, errs>>
          [] OTHER ->
                /\ errs' = Append(errs, "usage")
                /\ exit' = 2
                /\ pc' = "exited"
                /\ UNCHANGED <<opts, out>>
    /\ UNCHANGED <<kvVars, urlVars, argv, net, requests, resp, mime, body>>

\* let client = Client::new();
ClientNew ==
    /\ pc = "parsed"
    /\ pc' = "client"
    /\ UNCHANGED <<kvVars, urlVars, argv, net, opts, requests, resp, mime, body,
                   out, errs, exit>>

----------------------------------------------------------------------------
(* get and post *)

Request(method, url, hasBody, json) ==
    [method |-> method, url |-> url, hasBody |-> hasBody, json |-> json]

\* Variant that sends the request a second time.
RequestBuilder_send_Retry(reqs, r) == Append(Append(reqs, r), r)

\* RequestBuilder::send: the request is handed to the client once.
RequestBuilder_send(reqs, r) == Append(reqs, r)

\* HashMap::insert: the entry of key k is replaced.
HashMap_insert(m, k, v) == {e \in m : e[1] # k} \cup {<<k, v>>}

RECURSIVE BuildBody_FirstWins(_, _)
\* Variant that keeps the first value of a key.
BuildBody_FirstWins(m, pairs) ==
    IF pairs = <<>> THEN m
    ELSE LET p == Head(pairs) IN
         BuildBody_FirstWins(
            IF \E e \in m : e[1] = p.k THEN m ELSE m \cup {<<p.k, p.v>>},
            Tail(pairs))

RECURSIVE BuildBody(_, _)
\* for pair in args.body.iter() { body.insert(&pair.k, &pair.v); }
\* The map is a set of <<key, value>> entries, the members of the JSON
\* object it is serialised to.
BuildBody(m, pairs) ==
    IF pairs = <<>> THEN m
    ELSE BuildBody(HashMap_insert(m, Head(pairs).k, Head(pairs).v), Tail(pairs))

\* What follows send().await? in get and post: the response, or the
\* transport error that main returns.
AfterSend ==
    IF net.fail
    THEN /\ errs' = Append(errs, "Error")
         /\ exit' = Termination_report(FALSE)
         /\ pc' = "exited"
         /\ UNCHANGED resp
    ELSE /\ resp' = [received |-> TRUE, status |-> net.status, headers |-> net.headers]
         /\ pc' = "print_status"
         /\ UNCHANGED <<errs, exit>>

\* SubCommand::Get(ref args) => get(client, args).await?
Get ==
    /\ pc = "client"
    /\ opts.subcmd = "get"
    /\ requests' = RequestBuilder_send(requests, Request("GET", opts.url, FALSE, {}))
    /\ AfterSend
    /\ UNCHANGED <<kvVars, urlVars, argv, net, opts, mime, body, out>>

\* SubCommand::Post(ref args) => post(client, args).await?
Post ==
    /\ pc = "client"
    /\ opts.subcmd = "post"
    /\ requests' = RequestBuilder_send(requests,
                        Request("POST", opts.url, TRUE, BuildBody({}, opts.body)))
    /\ AfterSend
    /\ UNCHANGED <<kvVars, urlVars, argv, net, opts, mime, body, out>>

----------------------------------------------------------------------------
(* print_resp *)

\* fn print_status: the version and the status, then an empty line.
PrintStatus ==
    /\ pc = "print_status"
    /\ out' = Append(out, Line("status",
                    <<"HTTP/1.1", " ">> \o resp.status \o <<"\n", "\n">>))
    /\ pc' = "print_headers"
    /\ UNCHANGED <<kvVars, urlVars, argv, net, opts, requests, resp, mime, body,
                   errs, exit>>

RECURSIVE HeaderMap_iter_Reversed(_)
\* Variant that yields the headers last to first.
HeaderMap_iter_Reversed(hs) ==
    IF hs = <<>> THEN <<>>
    ELSE HeaderMap_iter_Reversed(Tail(hs)) \o <<Head(hs)>>

SameName(hs, n) == SelectSeq(hs, LAMBDA h : h.name = n)
OtherNames(hs, n) == SelectSeq(hs, LAMBDA h : h.name # n)

\* resp.headers() iterated: a HeaderMap keeps one entry per header name, in
\* the order the names were first appended, and an entry yields all the
\* values appended under its name, in order.
RECURSIVE HeaderMap_iter(_)
HeaderMap_iter(hs) ==
    IF hs = <<>> THEN <<>>
    ELSE SameName(hs, Head(hs).name) \o HeaderMap_iter(OtherNames(hs, Head(hs).name))

\* HeaderMap::get: the first value appended under the name, if any.
HeaderMap_get(hs, n) ==
    LET vs == SameName(hs, n) IN
    IF vs = <<>> THEN [present |-> FALSE, value |-> <<>>]
    ELSE [present |-> TRUE, value |-> vs[1].value]

IsVisibleAscii(tok) == tok # "0xE9"

\* One lexeme of a header value as {:?} writes it.
DebugEscape(tok) ==
    IF tok = "\"" THEN "\\\""
    ELSE IF ~IsVisibleAscii(tok) THEN "\\xe9"
    ELSE tok

\* {:?} of a HeaderValue: the value between double quotes, with a double
\* quote and a byte outside visible ASCII escaped.
HeaderValue_fmt_Debug(v) ==
    <<"\"">> \o [i \in 1..Len(v) |-> DebugEscape(v[i])] \o <<"\"">>

\* println!("{}: {:?}", name.to_string().green(), value)
HeaderLine(h) ==
    Line("header", <<h.name, ":", " ">> \o HeaderValue_fmt_Debug(h.value) \o <<"\n">>)

\* fn print_headers: one line per header, then an empty line.
PrintHeaders ==
    /\ pc = "print_headers"
    /\ LET hs == HeaderMap_iter(resp.headers) IN
        out' = out \o [i \in 1..Len(hs) |-> HeaderLine(hs[i])]
                   \o <<Line("headers_end", <<"\n">>)>>
    /\ pc' = "get_content_type"
    /\ UNCHANGED <<kvVars, urlVars, argv, net, opts, requests, resp, mime, body,
                   errs, exit>>

\* HeaderValue::to_str: only visible ASCII is text.
HeaderValue_to_str(v) == \A i \in 1..Len(v) : IsVisibleAscii(v[i])

IsName(tok) == tok \notin {"/", ";", " ", "=", "\""}

RECURSIVE Mime_params(_)
\* The parameters of a media type: each is ';', optional space, name=value.
Mime_params(s) ==
    IF s = <<>> THEN [ok |-> TRUE, params |-> <<>>]
    ELSE IF Head(s) # ";" THEN [ok |-> FALSE, params |-> <<>>]
    ELSE
        LET r == IF Len(s) >= 2 /\ s[2] = " " THEN SubSeq(s, 3, Len(s)) ELSE Tail(s) IN
        IF Len(r) >= 3 /\ IsName(r[1]) /\ r[2] = "=" /\ IsName(r[3])
        THEN LET rest == Mime_params(SubSeq(r, 4, Len(r))) IN
             IF rest.ok
             THEN [ok |-> TRUE, params |-> <<<<r[1], r[3]>>>> \o rest.params]
             ELSE rest
        ELSE [ok |-> FALSE, params |-> <<>>]

\* str::parse::<Mime>: type "/" subtype, then the parameters.
Mime_from_str(s) ==
    IF Len(s) >= 3 /\ IsName(s[1]) /\ s[2] = "/" /\ IsName(s[3])
    THEN LET ps == Mime_params(SubSeq(s, 4, Len(s))) IN
         IF ps.ok
         THEN [ok |-> TRUE, type |-> s[1], subtype |-> s[3], params |-> ps.params]
         ELSE [ok |-> FALSE, type |-> "", subtype |-> "", params |-> <<>>]
    ELSE [ok |-> FALSE, type |-> "", subtype |-> "", params |-> <<>>]

\* fn get_content_type: the Content-Type header, if present, as text and
\* then as a Mime; either unwrap panics on an error.
GetContentType ==
    /\ pc = "get_content_type"
    /\ LET h == HeaderMap_get(resp.headers, "content-type")
           m == Mime_from_str(h.value)
       IN
        IF ~h.present THEN
            /\ mime' = NoMime
            /\ pc' = "text"
            /\ UNCHANGED <<errs, exit>>
        ELSE IF ~HeaderValue_to_str(h.value) \/ ~m.ok THEN
            /\ errs' = Append(errs, "panic")
            /\ exit' = 101
            /\ pc' = "exited"
            /\ UNCHANGED mime
        ELSE
            /\ mime' = [present |-> TRUE, type |-> m.type, subtype |-> m.subtype,
                        params |-> m.params]
            /\ pc' = "text"
            /\ UNCHANGED <<errs, exit>>
    /\ UNCHANGED <<kvVars, urlVars, argv, net, opts, requests, resp, body, out>>

\* let body = resp.text().await?;
ReadText ==
    /\ pc = "text"
    /\ IF net.textFail
       THEN /\ errs' = Append(errs, "Error")
            /\ exit' = Termination_report(FALSE)
            /\ pc' = "exited"
            /\ UNCHANGED body
       ELSE /\ body' = [read |-> TRUE, text |-> net.text]
            /\ pc' = "print_body"
            /\ UNCHANGED <<errs, exit>>
    /\ UNCHANGED <<kvVars, urlVars, argv, net, opts, requests, resp, mime, out>>

Indent(depth) == <<"\n">> \o [i \in 1..depth |-> "  "]

RECURSIVE Formatter_format(_, _, _, _)
\* The jsonxf formatter over the lexemes of the text: white space is dropped,
\* an opening bracket deepens the indentation, a closing one lessens it, a
\* comma ends a line and a colon is followed by a space. Nothing is checked.
Formatter_format(s, depth, empty, first) ==
    IF s = <<>> THEN <<>>
    ELSE
        LET b == Head(s)
            r == Tail(s)
        IN
        CASE b \in {" ", "\n"} -> Formatter_format(r, depth, empty, first)
          [] b \in {"{", "["} ->
                (IF first THEN <<b>>
                 ELSE IF empty THEN Indent(depth) \o <<b>>
                 ELSE IF depth = 0 THEN <<"\n", b>>
                 ELSE <<b>>)
                \o Formatter_format(r, depth + 1, TRUE, FALSE)
          [] b \in {"}", "]"} ->
                LET d == IF depth > 0 THEN depth - 1 ELSE 0 IN
                (IF empty THEN <<b>> ELSE Indent(d) \o <<b>>)
                \o Formatter_format(r, d, FALSE, first)
          [] b = "," -> <<b>> \o Indent(depth) \o Formatter_format(r, depth, empty, first)
          [] b = ":" -> <<b, " ">> \o Formatter_format(r, depth, empty, first)
          [] OTHER ->
                (IF empty THEN Indent(depth) \o <<b>> ELSE <<b>>)
                \o Formatter_format(r, depth, FALSE, first)

\* jsonxf::pretty_print: the text run through the formatter. An error comes
\* only from the writer or from output that is not UTF-8, which text held in
\* memory does not cause.
jsonxf_pretty_print(s) == [ok |-> TRUE, val |-> Formatter_format(s, 0, FALSE, TRUE)]

\* v == mime::APPLICATION_JSON: the parsed value against the constant; a
\* value with parameters is not equal to the constant, which has none.
Mime_eq_APPLICATION_JSON(m) ==
    /\ m.present
    /\ m.type = "application"
    /\ m.subtype = "json"
    /\ m.params = <<>>

\* The text print_body writes for a body.
print_body_text(m, text) ==
    IF Mime_eq_APPLICATION_JSON(m) THEN jsonxf_pretty_print(text).val ELSE text

\* fn print_body, then Ok(()) from print_resp.
PrintBody ==
    /\ pc = "print_body"
    /\ IF Mime_eq_APPLICATION_JSON(mime) /\ ~jsonxf_pretty_print(body.text).ok
       THEN /\ errs' = Append(errs, "panic")
            /\ exit' = 101
            /\ pc' = "exited"
            /\ UNCHANGED out
       ELSE /\ out' = Append(out, Line("body", print_body_text(mime, body.text) \o <<"\n">>))
            /\ pc' = "return"
            /\ UNCHANGED <<errs, exit>>
    /\ UNCHANGED <<kvVars, urlVars, argv, net, opts, requests, resp, mime, body>>

\* Ok(result) from main.
MainReturn ==
    /\ pc = "return"
    /\ exit' = Termination_report(TRUE)
    /\ pc' = "exited"
    /\ UNCHANGED <<kvVars, urlVars, argv, net, opts, requests, resp, mime, body,
                   out, errs>>

Init ==
    /\ kvIn = <<>>
    /\ kvOut = KvNone
    /\ urlIn = <<>>
    /\ urlOut = UrlNone
    /\ pc = "start"
    /\ \/ argv \in AllArgvs /\ net \in FewNets
       \/ argv \in FewArgvs /\ net \in AllNets
    /\ InitProcess

Next ==
    \/ OptsParse
    \/ ClientNew
    \/ Get
    \/ Post
    \/ PrintStatus
    \/ PrintHeaders
    \/ GetContentType
    \/ ReadText
    \/ PrintBody
    \/ MainReturn

Spec == Init /\ [][Next]_vars

----------------------------------------------------------------------------
(* Properties *)

Terminated == exit # -1
Printed(part) == \E i \in 1..Len(out) : out[i].part = part
Lines(part) == SelectSeq(out, LAMBDA l : l.part = part)
ValidArgs(a) ==
    /\ a.cmd \in {"get", "post"}
    /\ Url_parse(a.url).ok
    /\ \A i \in 1..Len(a.body) : Count(a.body[i], "=") >= 1

\* Indexes of the pairs that no later pair of the same key follows.
LastOfKey(pairs) ==
    {i \in 1..Len(pairs) : \A j \in (i + 1)..Len(pairs) : pairs[j].k # pairs[i].k}

\* C4: the body of a POST is a JSON object with exactly one entry per
\* distinct key of the pair sequence, each key mapped to the value of the
\* last pair with that key; pairs a=1, b=2 give {"a":"1","b":"2"} and no
\* pairs give the empty object.
C4_LastWriteWins ==
    \A r \in 1..Len(requests) :
        requests[r].method = "POST" =>
            LET pairs == opts.body
                json == requests[r].json
            IN
            /\ requests[r].hasBody
            /\ json = {<<pairs[i].k, pairs[i].v>> : i \in LastOfKey(pairs)}
            /\ Cardinality(json) = Cardinality({pairs[i].k : i \in 1..Len(pairs)})
            /\ pairs = <<>> => json = {}
            /\ argv.body = <<<<"a", "=", "1">>, <<"b", "=", "2">>>> =>
                    json = {<<<<"a">>, <<"1">>>>, <<<<"b">>, <<"2">>>>}

\* A POST was sent for the arguments a=1 a=2.
C4_Witness ==
    /\ Len(requests) = 1
    /\ requests[1].method = "POST"
    /\ argv.body = <<<<"a", "=", "1">>, <<"a", "=", "2">>>>
    /\ requests[1].json = {<<<<"a">>, <<"2">>>>}

\* C5: at most one request is ever issued; an invocation whose arguments are
\* all valid ends having issued exactly one, a GET for get and a POST for
\* post; one with an invalid argument issues none, validation coming before
\* the request; a transport failure is not followed by a retry.
C5_AtMostOneRequest ==
    /\ Len(requests) <= 1
    /\ requests # <<>> =>
        /\ ValidArgs(argv)
        /\ requests[1].method = (IF argv.cmd = "get" THEN "GET" ELSE "POST")
        /\ requests[1].url = argv.url
    /\ (Terminated /\ ValidArgs(argv)) => Len(requests) = 1
    /\ (Terminated /\ ~ValidArgs(argv)) => requests = <<>>

\* The invocation ended on a transport failure, after its one request.
C5_Witness ==
    /\ Terminated
    /\ net.fail
    /\ Len(requests) = 1
    /\ exit # 0

Rank(part) ==
    CASE part = "status" -> 1
      [] part = "header" -> 2
      [] part = "headers_end" -> 3
      [] part = "body" -> 4
      [] OTHER -> 0

\* The sections of the output come in order, the status line and its blank
\* line first, and the body is read only once status and headers are out.
SectionsInOrder ==
    /\ \A i, j \in 1..Len(out) : i < j => Rank(out[i].part) <= Rank(out[j].part)
    /\ Len(Lines("status")) <= 1 /\ Len(Lines("headers_end")) <= 1
    /\ Len(Lines("body")) <= 1
    /\ Printed("status") =>
            out[1] = Line("status", <<"HTTP/1.1", " ">> \o resp.status \o <<"\n", "\n">>)
    /\ Printed("header") => Printed("status")
    /\ Printed("headers_end") =>
            /\ Printed("status")
            /\ Lines("headers_end")[1].text = <<"\n">>
            /\ Len(Lines("header")) = Len(resp.headers)
    /\ body.read => Printed("status") /\ Printed("headers_end")
    /\ Printed("body") => body.read

FirstOfName(hs, n) == CHOOSE i \in 1..Len(hs) :
    /\ hs[i].name = n
    /\ \A j \in 1..(i - 1) : hs[j].name # n

\* Header k is printed after header l: its name was first received later, or
\* they share a name and k was received later.
PrintedAfter(hs, k, l) ==
    LET fk == FirstOfName(hs, hs[k].name)
        fl == FirstOfName(hs, hs[l].name)
    IN fl < fk \/ (fl = fk /\ l < k)

RECURSIVE IsJsonValue(_)
\* The JSON texts among the lexeme sequences used as bodies.
IsJsonValue(s) ==
    \/ s \in {<<"1">>, <<"\"a\"">>, <<"{", "}">>}
    \/ /\ Len(s) >= 5
       /\ s[1] = "{" /\ s[2] = "\"a\"" /\ s[3] = ":" /\ s[Len(s)] = "}"
       /\ IsJsonValue(SubSeq(s, 4, Len(s) - 1))

\* C7: the body is pretty-printed whenever the Content-Type has type/subtype
\* application/json, whatever its parameters, and printed verbatim for any
\* other media type or when the header is absent.
C7_PrettyIffJsonEssence ==
    Printed("body") =>
        LET ct == HeaderMap_get(resp.headers, "content-type")
            isJson == ct.present /\ Len(ct.value) >= 3 /\ SubSeq(ct.value, 1, 3) = AppJson
            text == Lines("body")[1].text
        IN
        /\ (isJson /\ IsJsonValue(body.text)) =>
                text = jsonxf_pretty_print(body.text).val \o <<"\n">>
        /\ ~isJson => text = body.text \o <<"\n">>

\* C8: a header is printed as "<name>: <value>" with the value exactly as
\* received: nothing added, removed or substituted.
C8_HeaderValueVerbatim ==
    \A i \in 1..Len(out) :
        out[i].part = "header" =>
            \E k \in 1..Len(resp.headers) :
                out[i].text = <<resp.headers[k].name, ":", " ">>
                              \o resp.headers[k].value \o <<"\n">>

\* C9: a response that declares application/json with a body that is not
\* valid JSON ends the process with a non-zero status, after the status line
\* and the headers, without the body being printed.
C9_InvalidJsonIsFatal ==
    (/\ Terminated
     /\ body.read
     /\ mime.present /\ mime.type = "application" /\ mime.subtype = "json"
     /\ mime.params = <<>>
     /\ ~IsJsonValue(body.text)) =>
        /\ exit # 0
        /\ ~Printed("body")
        /\ Printed("status") /\ Printed("headers_end")

Succeeded ==
    /\ opts.subcmd # "none"
    /\ Len(requests) = 1
    /\ resp.received
    /\ body.read
    /\ Printed("body")

\* Every error ends the process with a non-zero status, and nothing follows
\* an error: no request, no body.
ErrorsAreTerminal ==
    /\ Terminated <=> pc = "exited"
    /\ errs # <<>> => Terminated /\ exit # 0 /\ ~Printed("body") /\ Len(errs) = 1
    /\ Terminated /\ argv.cmd \in {"get", "post", "put"} /\ ~ValidArgs(argv) => exit # 0
    /\ Terminated /\ requests # <<>> /\ (net.fail \/ net.textFail) => exit # 0

====
